---- MODULE Spec2Model ----
(***************************************************************************)
(* A model of the ledger core of src/blockchain/internals.py: the          *)
(* Transaction and Block records, the proof-of-work verifier, the          *)
(* Blockchain container (new_transaction, new_block, is_valid,             *)
(* resolve_chain_conflict, list_of_dicts, from_list_of_dicts) and the      *)
(* chain validator.                                                        *)
(*                                                                         *)
(* Python objects are modelled with a small heap: a Blockchain object      *)
(* holds a reference (chain) to a Python list object, and `lists` maps     *)
(* each list object to its contents, so that two Blockchain objects        *)
(* holding the same list are visible as such.                              *)
(*                                                                         *)
(* Optional values are sequences of length 0 (None) or 1 (the value).      *)
(* Dictionaries are sequences of <<key, value>> pairs, in insertion order. *)
(* SHA-256 is modelled as a collision-free digest of its input, except in  *)
(* the default puzzle, whose outcomes are the real digests' outcomes.      *)
(***************************************************************************)
EXTENDS Integers, Sequences, FiniteSets, TLC

\* ---------------------------------------------------------------- bounds

\* Blockchain objects, blocks in a list, transactions pending
NumLedgers == 3
MaxChainLen == 3
MaxPending == 2
\* clock values and transactions submitted, where several ledgers run
MaxTime == 1
MaxSubmitted == 1
\* clock values where the tests' chains or imported chains take part
MaxTimeStill == 0
\* clock values and transactions submitted, where one ledger runs alone
MaxTimeAlone == 2
MaxSubmittedAlone == 3
\* the candidates a call of proof_of_work tries before the model stops it
MaxProof == 35300
\* requests the application serves at a time
NumRequests == 3

\* ------------------------------------------------------------- constants

\* proof=100 of the genesis block
GenesisProof == 100

None == <<>>
Some(x) == <<x>>

LedgerIds == 1..NumLedgers

\* The callables a caller passes as valid_proof: the default puzzle and one
\* alternative puzzle (the proof must repeat the previous proof).
Verifiers == {"valid_four_zeros_proof", "valid_repeat_proof"}

\* The proofs callers try: 35293 = proof_of_work(100),
\* 35089 = proof_of_work(35293), 119678 = proof_of_work(35089).
ProofValues == {0, GenesisProof, 35293, 35089, 119678}

\* An amount keeps its Python type: Transaction does not convert it.
AmountInputs == {[type |-> "int", val |-> "3"], [type |-> "str", val |-> "39"]}

\* Transaction(sender, recipient, amount)
Transaction(sender, recipient, amount) ==
    [sender |-> sender, recipient |-> recipient, amount |-> amount]

\* The (sender, recipient, amount) triples callers submit.
TxInputs == {<<"a", "b", [type |-> "int", val |-> "3"]>>,
             <<"b", "a", [type |-> "str", val |-> "39"]>>}

\* -------------------------------------------------------- proof of work

RECURSIVE Str(_)
\* str(n) of a non-negative int, as its sequence of decimal digits
Str(n) == IF n < 10 THEN <<n>> ELSE Str(n \div 10) \o <<n % 10>>

\* The strings f'{last_proof}{proof}' over ProofValues whose SHA-256 hex
\* digest starts with "0000" (computed with hashlib.sha256).
FourZeroDigests ==
    { <<1,0,0,3,5,2,9,3>>,
      <<3,5,2,9,3,3,5,0,8,9>>,
      <<3,5,0,8,9,1,1,9,6,7,8>> }

valid_four_zeros_proof(last_proof, proof) ==
    LET guess_utf == Str(last_proof) \o Str(proof)
    IN  guess_utf \in FourZeroDigests

valid_repeat_proof(last_proof, proof) == proof = last_proof

\* a puzzle without a solution, as a caller of proof_of_work may pass
valid_no_proof(last_proof, proof) == FALSE

\* Calling the callable valid_proof
Apply(valid_proof, last_proof, proof) ==
    CASE valid_proof = "valid_four_zeros_proof" ->
            valid_four_zeros_proof(last_proof, proof)
      [] valid_proof = "valid_repeat_proof" ->
            valid_repeat_proof(last_proof, proof)
      [] valid_proof = "valid_no_proof" ->
            valid_no_proof(last_proof, proof)

\* ---------------------------------------------------------------- Block

Block(index, timestamp, proof, previous_hash, transactions) ==
    [index |-> index, timestamp |-> timestamp, proof |-> proof,
     previous_hash |-> previous_hash, transactions |-> transactions]

\* asdict(transaction, dict_factory=OrderedDict)
TxDict(tx) ==
    << <<"sender", tx.sender>>, <<"recipient", tx.recipient>>,
       <<"amount", tx.amount>> >>

BlockDictNoTimestamp(b) ==
    << <<"index", b.index>>,
       <<"proof", b.proof>>,
       <<"previous_hash", b.previous_hash>>,
       <<"transactions",
         IF b.transactions = None THEN None
         ELSE Some([i \in 1..Len(b.transactions[1]) |->
                       TxDict(b.transactions[1][i])])>> >>

\* Block.dict(): the fields in declaration order, transactions converted
BlockDict(b) ==
    << <<"index", b.index>>,
       <<"timestamp", b.timestamp>>,
       <<"proof", b.proof>>,
       <<"previous_hash", b.previous_hash>>,
       <<"transactions",
         IF b.transactions = None THEN None
         ELSE Some([i \in 1..Len(b.transactions[1]) |->
                       TxDict(b.transactions[1][i])])>> >>

\* sha256(...).hexdigest() of a serialized value
Sha256(text) == <<"sha256", text>>

\* json.dumps of a str: the text is a sequence of tokens
JsonString(s) == <<"\"", s, "\"">>

\* json.dumps of a dictionary: the items in their order, values[i] being
\* the text of the value of the i-th item
JsonObject(d, values) ==
    LET items[i \in 0..Len(d)] ==
            IF i = 0 THEN <<>>
            ELSE items[i - 1] \o (IF i > 1 THEN <<",">> ELSE <<>>)
                 \o JsonString(d[i][1]) \o <<":">> \o values[i]
    IN  <<"{">> \o items[Len(d)] \o <<"}">>

\* json.dumps of a list, values[i] being the text of its i-th element
JsonArray(values) ==
    LET items[i \in 0..Len(values)] ==
            IF i = 0 THEN <<>>
            ELSE items[i - 1] \o (IF i > 1 THEN <<",">> ELSE <<>>)
                 \o values[i]
    IN  <<"[">> \o items[Len(values)] \o <<"]">>

\* json.dumps of the dictionary of a transaction: an amount is written as
\* the number or the string it is
JsonTransaction(tx_dict) ==
    LET Value(key, value) ==
            IF key = "amount" /\ value.type # "str"
            THEN <<value.val>>
            ELSE IF key = "amount" THEN JsonString(value.val)
            ELSE JsonString(value)
    IN  JsonObject(tx_dict, [i \in 1..Len(tx_dict) |->
                                Value(tx_dict[i][1], tx_dict[i][2])])

\* json.dumps(self.dict()): ints as their digits, the timestamp as a float,
\* None as null, the transactions as a list of dictionaries
JsonDumps(block_dict) ==
    LET Value(key, value) ==
            CASE key \in {"index", "proof"} -> <<ToString(value)>>
              [] key = "timestamp" -> <<ToString(value), ".0">>
              [] key = "previous_hash" ->
                    IF value = None THEN <<"null">> ELSE JsonString(value[1])
              [] key = "transactions" ->
                    IF value = None THEN <<"null">>
                    ELSE JsonArray([i \in 1..Len(value[1]) |->
                                       JsonTransaction(value[1][i])])
    IN  JsonObject(block_dict, [i \in 1..Len(block_dict) |->
                                   Value(block_dict[i][1], block_dict[i][2])])

\* Block.hash()
Hash(b) == Sha256(JsonDumps(BlockDict(b)))

\* ------------------------------------------------------------ dict access

HasKey(d, k) == \E i \in 1..Len(d) : d[i][1] = k
Get(d, k) == d[CHOOSE i \in 1..Len(d) : d[i][1] = k][2]

TxFromDictSwapped(x) ==
    Transaction(Get(x, "recipient"), Get(x, "sender"), Get(x, "amount"))

\* Transaction(**x)
TxFromDict(x) ==
    Transaction(Get(x, "sender"), Get(x, "recipient"), Get(x, "amount"))

\* Block.from_dict raises ValueError on a dictionary without these keys
FromDictRaises(block_dict) ==
    \E key \in {"index", "timestamp", "proof"} : ~HasKey(block_dict, key)

\* Block.from_dict
FromDict(block_dict) ==
    LET txs == IF HasKey(block_dict, "transactions")
                  /\ Get(block_dict, "transactions") # None
               THEN LET raw == Get(block_dict, "transactions")[1]
                    IN  Some([i \in 1..Len(raw) |-> TxFromDict(raw[i])])
               ELSE None
        prev == IF HasKey(block_dict, "previous_hash")
                THEN Get(block_dict, "previous_hash") ELSE None
    IN  Block(Get(block_dict, "index"), Get(block_dict, "timestamp"),
              Get(block_dict, "proof"), prev, txs)

\* ------------------------------------------------------- chain validator

LinksOkProofsOnly(chain, valid_proof) ==
    \A i \in 1..(Len(chain) - 1) :
        Apply(valid_proof, chain[i].proof, chain[i + 1].proof)

\* first loop of valid_chain: the adjacent pairs
LinksOk(chain, valid_proof) ==
    \A i \in 1..(Len(chain) - 1) :
        /\ chain[i + 1].previous_hash = Some(Hash(chain[i]))
        /\ Apply(valid_proof, chain[i].proof, chain[i + 1].proof)

\* second loop of valid_chain: enumerate(chain) counts from 0
IndicesOk(chain) == \A i \in 1..Len(chain) : chain[i].index = i - 1

valid_chain_no_index(chain, valid_proof) == LinksOk(chain, valid_proof)

valid_chain(chain, valid_proof) ==
    LinksOk(chain, valid_proof) /\ IndicesOk(chain)

\* ---------------------------------------------------------------- state

VARIABLES
    ledgers,   \* the Blockchain objects: valid_proof, unconfirmed_transactions
               \* and chain, a reference to a list object
    lists,     \* the contents of each list object
    now,       \* the last value time() returned
    submitted, \* how many transactions callers have submitted so far
    last,      \* the outcome of the last call: what it returned or raised
    search,    \* the running call of proof_of_work: its arguments and its
               \* local variable proof
    requests   \* the requests the Flask application is serving: the handler,
               \* its position and its local variables

vars == <<ledgers, lists, now, submitted, last, search, requests>>

\* a slot in which no Blockchain has been constructed yet
NoLedger ==
    [alive |-> FALSE, valid_proof |-> "valid_four_zeros_proof",
     unconfirmed_transactions |-> <<>>, chain |-> 1]

\* Blockchain.chain: the list the object holds
Chain(l) == lists[ledgers[l].chain]

Alive == {l \in LedgerIds : ledgers[l].alive}

\* a new object takes the first free slot
IsFreeSlot(l) ==
    /\ ~ledgers[l].alive
    /\ \A k \in LedgerIds : k < l => ledgers[k].alive

\* time(): a value not below the last one, up to a bound
Times(bound) == {t \in now..(now + 1) : t <= bound}

\* what a call reports
Outcome(op, ret, exc) ==
    [op |-> op, ret |-> ret, exc |-> exc]

\* Blockchain.__init__: the genesis block
GenesisBlock(t) == Block(0, t, GenesisProof, None, None)

\* Blockchain.__len__
LenOf(l) == Len(Chain(l))

\* Blockchain.is_valid
is_valid(l) == valid_chain(Chain(l), ledgers[l].valid_proof)

\* Blockchain.list_of_dicts
list_of_dicts(l) == [i \in 1..Len(Chain(l)) |-> BlockDict(Chain(l)[i])]

\* no call of proof_of_work has been made
NoSearch ==
    [pc |-> "idle", last_proof |-> 0,
     valid_proof |-> "valid_four_zeros_proof", proof |-> 0]

\* the requests the application may be serving at a time
Requests == 1..NumRequests

\* a request that has not arrived. A request holds the handler that serves
\* it and its position pc, the form it carries, the response code, and the
\* local values of the calls in progress: proof (of mine), list (whether
\* the list loaded from self.unconfirmed_transactions is still the one the
\* Blockchain holds), index, timestamp, transactions and previous_hash (the
\* arguments of Block(...) evaluated so far), ret and exc (what the call
\* returned or raised).
NoRequest ==
    [handler |-> "none", pc |-> "idle", form |-> <<>>, code |-> 0,
     proof |-> 0, list |-> "none", index |-> 0, timestamp |-> 0,
     transactions |-> <<>>, previous_hash |-> None, ret |-> None,
     exc |-> "none"]

\* Blockchain.__eq__: the verifiers are equal and the blocks zip pairs up
\* are equal; zip stops at the end of the shorter chain
Eq(self, other) ==
    /\ ledgers[self].valid_proof = ledgers[other].valid_proof
    /\ \A i \in 1..Len(Chain(self)) :
          i <= Len(Chain(other)) => Chain(self)[i] = Chain(other)[i]

\* The state after Blockchain() in slot 1
Init ==
    /\ ledgers = [l \in LedgerIds |->
                    IF l = 1
                    THEN [alive |-> TRUE,
                          valid_proof |-> "valid_four_zeros_proof",
                          unconfirmed_transactions |-> <<>>, chain |-> 1]
                    ELSE NoLedger]
    /\ lists = [l \in LedgerIds |-> IF l = 1 THEN <<GenesisBlock(0)>> ELSE <<>>]
    /\ now = 0
    /\ submitted = 0
    /\ last = Outcome("__init__", None, "none")
    /\ search = NoSearch
    /\ requests = [r \in Requests |-> NoRequest]

\* ----------------------------------------------------------- operations

\* Blockchain(valid_proof=v) constructed in a free slot
Construct(l, v, t) ==
    /\ IsFreeSlot(l)
    /\ now' = t
    /\ lists' = [lists EXCEPT ![l] = <<GenesisBlock(t)>>]
    /\ ledgers' = [ledgers EXCEPT ![l] =
                      [alive |-> TRUE, valid_proof |-> v,
                       unconfirmed_transactions |-> <<>>, chain |-> l]]
    /\ last' = Outcome("__init__", None, "none")
    /\ UNCHANGED <<submitted, search, requests>>

NewTransactionReturnsLastIndex(l, tx) ==
    /\ ledgers[l].alive
    /\ Len(ledgers[l].unconfirmed_transactions) < MaxPending
    /\ submitted' = submitted + 1
    /\ ledgers' = [ledgers EXCEPT ![l].unconfirmed_transactions =
                      Append(@, Transaction(tx[1], tx[2], tx[3]))]
    /\ last' = Outcome("new_transaction", Some(LenOf(l) - 1), "none")
    /\ UNCHANGED <<lists, now, search, requests>>

\* Blockchain.new_transaction
NewTransaction(l, tx) ==
    /\ ledgers[l].alive
    /\ Len(ledgers[l].unconfirmed_transactions) < MaxPending
    /\ submitted' = submitted + 1
    /\ ledgers' = [ledgers EXCEPT ![l].unconfirmed_transactions =
                      Append(@, Transaction(tx[1], tx[2], tx[3]))]
    /\ last' = Outcome("new_transaction", Some(LenOf(l)), "none")
    /\ UNCHANGED <<lists, now, search, requests>>

MinedBlockStaleIndex(chain, pending, proof, t) ==
    Block(Len(chain) - 1, t, proof, Some(Hash(chain[Len(chain)])),
          Some(pending))

MinedBlockNoTransactions(chain, pending, proof, t) ==
    Block(Len(chain), t, proof, Some(Hash(chain[Len(chain)])), Some(<<>>))

MinedBlockNextIndex(chain, pending, proof, t) ==
    Block(Len(chain) + 1, t, proof, Some(Hash(chain[Len(chain)])),
          Some(pending))

MinedBlockDropsLast(chain, pending, proof, t) ==
    Block(Len(chain), t, proof, Some(Hash(chain[Len(chain)])),
          Some(SubSeq(pending, 1, Len(pending) - 1)))

\* the Block new_block constructs
MinedBlock(chain, pending, proof, t) ==
    Block(Len(chain), t, proof, Some(Hash(chain[Len(chain)])),
          Some(pending))

ProofAcceptedAlways(valid_proof, chain, proof) == TRUE

\* the check new_block makes of its proof
ProofAccepted(valid_proof, chain, proof) ==
    Apply(valid_proof, chain[Len(chain)].proof, proof)

NewBlockReplacesLast(l, proof, t) ==
    /\ ledgers[l].alive
    /\ LET self == ledgers[l]
           chain == Chain(l)
       IN  IF chain = <<>>
           THEN /\ last' = Outcome("new_block", None, "IndexError")
                /\ UNCHANGED <<ledgers, lists, now>>
           ELSE IF ~ProofAccepted(self.valid_proof, chain, proof)
           THEN /\ last' = Outcome("new_block", None, "InvalidProofError")
                /\ UNCHANGED <<ledgers, lists, now>>
           ELSE /\ Len(chain) < MaxChainLen
                /\ LET block == MinedBlock(chain,
                                     self.unconfirmed_transactions, proof, t)
                   IN  /\ now' = t
                       /\ lists' = [lists EXCEPT ![self.chain] =
                                       IF Len(@) > 1
                                       THEN [@ EXCEPT ![Len(@)] = block]
                                       ELSE Append(@, block)]
                       /\ last' = Outcome("new_block", Some(block), "none")
                /\ ledgers' = [ledgers EXCEPT
                                  ![l].unconfirmed_transactions = <<>>]
    /\ UNCHANGED <<submitted, search, requests>>

\* Blockchain.new_block
NewBlock(l, proof, t) ==
    /\ ledgers[l].alive
    /\ LET self == ledgers[l]
           chain == Chain(l)
       IN  IF chain = <<>>
           THEN \* self.last_block is self._chain[-1]
                /\ last' = Outcome("new_block", None, "IndexError")
                /\ UNCHANGED <<ledgers, lists, now>>
           ELSE IF ~ProofAccepted(self.valid_proof, chain, proof)
           THEN /\ last' = Outcome("new_block", None, "InvalidProofError")
                /\ UNCHANGED <<ledgers, lists, now>>
           ELSE /\ Len(chain) < MaxChainLen
                /\ LET block == MinedBlock(chain,
                                     self.unconfirmed_transactions, proof, t)
                   IN  /\ now' = t
                       /\ lists' = [lists EXCEPT ![self.chain] =
                                       Append(@, block)]
                       /\ last' = Outcome("new_block", Some(block), "none")
                /\ ledgers' = [ledgers EXCEPT
                                  ![l].unconfirmed_transactions = <<>>]
    /\ UNCHANGED <<submitted, search, requests>>

QualifiesNotShorter(self, x) ==
    /\ ledgers[x].valid_proof = ledgers[self].valid_proof
    /\ LenOf(x) >= LenOf(self)
    /\ is_valid(x)

QualifiesUnchecked(self, x) ==
    /\ ledgers[x].valid_proof = ledgers[self].valid_proof
    /\ LenOf(x) > LenOf(self)

QualifiesAnyVerifier(self, x) ==
    /\ LenOf(x) > LenOf(self)
    /\ is_valid(x)

\* the condition of the list comprehension in resolve_chain_conflict
Qualifies(self, x) ==
    /\ ledgers[x].valid_proof = ledgers[self].valid_proof
    /\ LenOf(x) > LenOf(self)
    /\ is_valid(x)

\* valid_longer_chains: [x for x in chains if all([...])], in the order of
\* chains
ValidLongerChains(self, chains) ==
    LET Test(x) == Qualifies(self, x) IN SelectSeq(chains, Test)

RECURSIVE MaxByLen(_)
\* max(candidates, key=len): the first of the longest
MaxByLen(candidates) ==
    IF Len(candidates) = 1 THEN candidates[1]
    ELSE LET rest == MaxByLen(Tail(candidates))
         IN  IF LenOf(rest) > LenOf(Head(candidates))
             THEN rest ELSE Head(candidates)

RECURSIVE LastOfLongest(_)
LastOfLongest(candidates) ==
    IF Len(candidates) = 1 THEN candidates[1]
    ELSE LET rest == LastOfLongest(Tail(candidates))
         IN  IF LenOf(rest) >= LenOf(Head(candidates))
             THEN rest ELSE Head(candidates)

FirstCandidate(candidates) == candidates[1]

LastCandidate(candidates) == candidates[Len(candidates)]

\* the Blockchain whose chain resolve_chain_conflict adopts
Winner(candidates) == MaxByLen(candidates)

AdoptedWithPending(self, winner) ==
    [ledgers[self] EXCEPT
        !.chain = ledgers[winner].chain,
        !.unconfirmed_transactions = ledgers[winner].unconfirmed_transactions]

\* self._chain = winner.chain: self holds the winner's list object
Adopted(self, winner) == [ledgers[self] EXCEPT !.chain = ledgers[winner].chain]

\* the lists of other Blockchain objects a caller passes to
\* self.resolve_chain_conflict: none, one, or two in either order
CandidateLists(self) ==
    LET others == Alive \ {self}
    IN  {<<>>} \cup {<<a>> : a \in others}
        \cup {pair \in others \X others : pair[1] # pair[2]}

\* Blockchain.resolve_chain_conflict
ResolveChainConflict(l, chains) ==
    /\ ledgers[l].alive
    /\ LET valid_longer_chains == ValidLongerChains(l, chains)
       IN  IF valid_longer_chains # <<>>
           THEN /\ ledgers' = [ledgers EXCEPT
                                  ![l] = Adopted(l, Winner(valid_longer_chains))]
                /\ last' = Outcome("resolve_chain_conflict", Some(TRUE), "none")
           ELSE /\ ledgers' = ledgers
                /\ last' = Outcome("resolve_chain_conflict", Some(FALSE), "none")
    /\ UNCHANGED <<lists, now, submitted, search, requests>>

\* ------------------------------------------------------------------ import

\* d[k] = v on a dictionary that has the key
SetKey(d, k, v) ==
    [i \in 1..Len(d) |-> IF d[i][1] = k THEN <<k, v>> ELSE d[i]]

\* del d[k]
DelKey(d, k) ==
    LET Keep(pair) == pair[1] # k IN SelectSeq(d, Keep)

\* What a peer may send in place of the chain lst it holds: the list itself,
\* the empty list, and the list with its last index zeroed, its last block
\* sent twice, the proof of its last block missing, the proof of its first
\* block changed, or its first block missing.
Tampered(lst) ==
    {lst, <<>>}
    \cup (IF lst = <<>> THEN {}
          ELSE LET n == Len(lst)
               IN  { [lst EXCEPT ![n] = SetKey(@, "index", 0)],
                     Append(lst, lst[n]),
                     [lst EXCEPT ![n] = DelKey(@, "proof")],
                     [lst EXCEPT ![1] = SetKey(@, "proof", 0)],
                     Tail(lst) })

\* the lists of dictionaries callers pass to from_list_of_dicts
ImportInputs == UNION {Tampered(list_of_dicts(s)) : s \in Alive}

validate_links_only(chain, valid_proof) == LinksOk(chain, valid_proof)

\* new_blockchain.is_valid() in from_list_of_dicts
ImportedIsValid(chain, valid_proof) == valid_chain(chain, valid_proof)

\* Blockchain.from_list_of_dicts, its result kept in a free slot
FromListOfDicts(l, chain_lst, v, t) ==
    /\ IsFreeSlot(l)
    /\ Len(chain_lst) <= MaxChainLen
    /\ now' = t
    /\ UNCHANGED <<submitted, search, requests>>
    /\ IF \E i \in 1..Len(chain_lst) : FromDictRaises(chain_lst[i])
       THEN /\ last' = Outcome("from_list_of_dicts", None, "ValueError")
            /\ UNCHANGED <<ledgers, lists>>
       ELSE LET chain == [i \in 1..Len(chain_lst) |-> FromDict(chain_lst[i])]
            IN  IF ImportedIsValid(chain, v)
                THEN /\ ledgers' = [ledgers EXCEPT ![l] =
                                       [alive |-> TRUE, valid_proof |-> v,
                                        unconfirmed_transactions |-> <<>>,
                                        chain |-> l]]
                     /\ lists' = [lists EXCEPT ![l] = chain]
                     /\ last' = Outcome("from_list_of_dicts", Some(l), "none")
                ELSE /\ last' = Outcome("from_list_of_dicts", None,
                                        "InvalidBlockchainError")
                     /\ UNCHANGED <<ledgers, lists>>

\* chain._chain.append(chain.last_block), as the tests build invalid chains
AppendLastBlock(l) ==
    /\ ledgers[l].alive
    /\ Chain(l) # <<>>
    /\ Len(Chain(l)) < MaxChainLen
    /\ lists' = [lists EXCEPT ![ledgers[l].chain] =
                    Append(@, @[Len(@)])]
    /\ last' = Outcome("append_last_block", None, "none")
    /\ UNCHANGED <<ledgers, now, submitted, search, requests>>

ValidatedListPopped(chain) == SubSeq(chain, 1, Len(chain) - 1)

\* the list a Blockchain holds after valid_chain has run over it: the loops
\* read copies (chain.chain[:-1], chain.chain[1:]) and enumerate(chain.chain)
ValidatedList(chain) == chain

\* Blockchain.is_valid, called on a ledger
IsValid(l) ==
    /\ ledgers[l].alive
    /\ lists' = [lists EXCEPT ![ledgers[l].chain] = ValidatedList(@)]
    /\ last' = Outcome("is_valid", Some(is_valid(l)), "none")
    /\ UNCHANGED <<ledgers, now, submitted, search, requests>>

\* --------------------------------------------------- proof_of_work, run

\* The (last_proof, valid_proof) pairs callers pass to proof_of_work: the
\* genesis proof under the default puzzle, three proofs under the puzzle
\* that wants the proof repeated, and a puzzle without solution.
SearchInputs ==
    { <<GenesisProof, "valid_four_zeros_proof">>,
      <<0, "valid_repeat_proof">>,
      <<7, "valid_repeat_proof">>,
      <<GenesisProof, "valid_repeat_proof">>,
      <<GenesisProof, "valid_no_proof">> }

\* proof_of_work is called: proof = 0
ProofOfWorkCall(last_proof, valid_proof) ==
    /\ search.pc \in {"idle", "done"}
    /\ search' = [pc |-> "loop", last_proof |-> last_proof,
                  valid_proof |-> valid_proof, proof |-> 0]
    /\ UNCHANGED <<ledgers, lists, now, submitted, last, requests>>

KeepsSearchingUntilNext(valid_proof, last_proof, proof) ==
    ~Apply(valid_proof, last_proof, proof + 1)

\* the condition of the while loop
KeepsSearching(valid_proof, last_proof, proof) ==
    ~Apply(valid_proof, last_proof, proof)

NextCandidateSkipping(proof) == proof + 2

\* proof += 1
NextCandidate(proof) == proof + 1

\* one evaluation of the loop condition of proof_of_work, followed by the
\* loop body or by the return
ProofOfWorkStep ==
    /\ search.pc = "loop"
    /\ IF KeepsSearching(search.valid_proof, search.last_proof, search.proof)
       THEN /\ search.proof < MaxProof
            /\ search' = [search EXCEPT !.proof = NextCandidate(@)]
            /\ UNCHANGED last
       ELSE /\ search' = [search EXCEPT !.pc = "done"]
            /\ last' = Outcome("proof_of_work", Some(search.proof), "none")
    /\ UNCHANGED <<ledgers, lists, now, submitted, requests>>

\* ------------------------------------------- the Flask application, run

\* node_id = str(uuid4()).replace('-', '')
node_id == "node_id"

\* the Blockchain object of create_blockchain_application
blockchain == 1

\* proof_of_work(last_proof) under the default puzzle, for the proofs a
\* chain may end with: the first proof from 0 up that is accepted, if there
\* is one up to MaxProof
FirstFit ==
    [last_proof \in ProofValues |->
        LET accepted == {p \in 0..MaxProof :
                           valid_four_zeros_proof(last_proof, p)}
        IN  IF accepted = {} THEN None
            ELSE Some(CHOOSE p \in accepted : \A q \in accepted : p <= q)]

\* The forms a client posts to /transactions/new: request r posts a
\* transaction sent by r, its values strings as form values are, or a form
\* without an amount.
Forms(r) ==
    { << <<"sender", ToString(r)>>, <<"recipient", "b">>,
         <<"amount", [type |-> "str", val |-> "5"]>> >>,
      << <<"sender", ToString(r)>>, <<"recipient", "b">> >> }

\* what a request may be: GET /mine, or POST /transactions/new with a form
Arrivals(r) ==
    {<<"mine", <<>> >>} \cup {<<"new_transaction", form>> : form \in Forms(r)}

\* Request r arrives and a thread starts to serve it. At most
\* MaxChainLen - 1 requests are for /mine, so that the chain stays within
\* MaxChainLen blocks.
Arrive(r, handler, form) ==
    /\ requests[r].handler = "none"
    /\ \A k \in Requests : k < r => requests[k].handler # "none"
    /\ handler = "mine" =>
          Cardinality({k \in Requests : requests[k].handler = "mine"})
             < MaxChainLen - 1
    /\ requests' = [requests EXCEPT ![r] =
                       [NoRequest EXCEPT
                           !.handler = handler, !.form = form,
                           !.pc = IF handler = "mine" THEN "solve"
                                  ELSE "keys"]]
    /\ UNCHANGED <<ledgers, lists, now, submitted, last, search>>

\* mine: proof = proof_of_work(blockchain.last_block.proof). The search
\* returns if a proof up to MaxProof is accepted.
Solve(r) ==
    /\ requests[r].pc = "solve"
    /\ Chain(blockchain) # <<>>
    /\ LET last_proof == Chain(blockchain)[LenOf(blockchain)].proof
       IN  /\ FirstFit[last_proof] # None
           /\ requests' = [requests EXCEPT
                              ![r].proof = FirstFit[last_proof][1],
                              ![r].pc = "reward_load"]
    /\ UNCHANGED <<ledgers, lists, now, submitted, last, search>>

\* new_transaction handler: the keys of the form are checked
CheckKeys(r) ==
    /\ requests[r].pc = "keys"
    /\ LET keys == {requests[r].form[i][1] : i \in 1..Len(requests[r].form)}
       IN  requests' = [requests EXCEPT ![r] =
                IF keys # {"sender", "recipient", "amount"}
                THEN [@ EXCEPT !.code = 400, !.pc = "done"]
                ELSE [@ EXCEPT !.pc = "load"]]
    /\ UNCHANGED <<ledgers, lists, now, submitted, last, search>>

\* Blockchain.new_transaction, called by either handler:
\* self.unconfirmed_transactions is loaded, before Transaction(...) is
\* constructed
LoadList(r) ==
    /\ requests[r].pc \in {"reward_load", "load"}
    /\ requests' = [requests EXCEPT
                       ![r].list = "current",
                       ![r].pc = IF @ = "load" THEN "append"
                                 ELSE "reward_append"]
    /\ UNCHANGED <<ledgers, lists, now, submitted, last, search>>

\* Blockchain.new_transaction: .append(Transaction(...)) on the list that was
\* loaded. A list the Blockchain has replaced in the meantime is read by
\* nobody any more. In mine, the length new_transaction returns is dropped.
AppendTransaction(r) ==
    /\ requests[r].pc \in {"reward_append", "append"}
    /\ LET tx == IF requests[r].pc = "append"
                 THEN TxFromDict(requests[r].form)
                 ELSE Transaction("0", node_id, [type |-> "int", val |-> "1"])
       IN  ledgers' = IF requests[r].list = "current"
                      THEN [ledgers EXCEPT
                               ![blockchain].unconfirmed_transactions =
                                  Append(@, tx)]
                      ELSE ledgers
    /\ submitted' = submitted + 1
    /\ requests' = [requests EXCEPT
                       ![r].pc = IF @ = "append" THEN "return" ELSE "check"]
    /\ UNCHANGED <<lists, now, last, search>>

\* Blockchain.new_transaction returns len(self._chain) and the handler
\* answers 201
ReturnIndex(r) ==
    /\ requests[r].pc = "return"
    /\ requests' = [requests EXCEPT
                       ![r].ret = Some(LenOf(blockchain)),
                       ![r].code = 201,
                       ![r].pc = "done"]
    /\ UNCHANGED <<ledgers, lists, now, submitted, last, search>>

\* Blockchain.new_block, called by mine: the proof is checked against the
\* proof of the block that is last now; InvalidProofError leaves the handler
\* and the request is answered 500
CheckProof(r) ==
    /\ requests[r].pc = "check"
    /\ Chain(blockchain) # <<>>
    /\ requests' = [requests EXCEPT ![r] =
          IF ProofAccepted(ledgers[blockchain].valid_proof, Chain(blockchain),
                           requests[r].proof)
          THEN [@ EXCEPT !.pc = "index"]
          ELSE [@ EXCEPT !.exc = "InvalidProofError", !.code = 500,
                         !.pc = "done"]]
    /\ UNCHANGED <<ledgers, lists, now, submitted, last, search>>

\* Blockchain.new_block: index=len(self), timestamp=time()
ReadIndex(r, t) ==
    /\ requests[r].pc = "index"
    /\ now' = t
    /\ requests' = [requests EXCEPT
                       ![r].index = LenOf(blockchain),
                       ![r].timestamp = t,
                       ![r].pc = "transactions"]
    /\ UNCHANGED <<ledgers, lists, submitted, last, search>>

\* Blockchain.new_block: transactions=tuple(self.unconfirmed_transactions)
ReadTransactions(r) ==
    /\ requests[r].pc = "transactions"
    /\ requests' = [requests EXCEPT
                       ![r].transactions =
                          ledgers[blockchain].unconfirmed_transactions,
                       ![r].pc = "previous_hash"]
    /\ UNCHANGED <<ledgers, lists, now, submitted, last, search>>

\* Blockchain.new_block: previous_hash=self.last_block.hash()
ReadPreviousHash(r) ==
    /\ requests[r].pc = "previous_hash"
    /\ Chain(blockchain) # <<>>
    /\ requests' = [requests EXCEPT
                       ![r].previous_hash =
                          Some(Hash(Chain(blockchain)[LenOf(blockchain)])),
                       ![r].pc = "append_block"]
    /\ UNCHANGED <<ledgers, lists, now, submitted, last, search>>

\* Blockchain.new_block: self._chain.append(Block(...))
AppendBlock(r) ==
    /\ requests[r].pc = "append_block"
    /\ lists' = [lists EXCEPT ![ledgers[blockchain].chain] =
                    Append(@, Block(requests[r].index, requests[r].timestamp,
                                    requests[r].proof,
                                    requests[r].previous_hash,
                                    Some(requests[r].transactions)))]
    /\ requests' = [requests EXCEPT ![r].pc = "clear"]
    /\ UNCHANGED <<ledgers, now, submitted, last, search>>

\* Blockchain.new_block: self.unconfirmed_transactions = []. The list other
\* threads have loaded is not the list of the Blockchain any more.
ClearPending(r) ==
    /\ requests[r].pc = "clear"
    /\ ledgers' = [ledgers EXCEPT
                      ![blockchain].unconfirmed_transactions = <<>>]
    /\ requests' = [k \in Requests |->
                       IF k = r THEN [requests[k] EXCEPT !.pc = "return_block"]
                       ELSE IF requests[k].list = "current"
                       THEN [requests[k] EXCEPT !.list = "replaced"]
                       ELSE requests[k]]
    /\ UNCHANGED <<lists, now, submitted, last, search>>

\* Blockchain.new_block returns self.last_block and mine answers 200
ReturnBlock(r) ==
    /\ requests[r].pc = "return_block"
    /\ requests' = [requests EXCEPT
                       ![r].ret = Some(Chain(blockchain)[LenOf(blockchain)]),
                       ![r].code = 200,
                       ![r].pc = "done"]
    /\ UNCHANGED <<ledgers, lists, now, submitted, last, search>>

\* BlockchainNode.resolve_conflicts of the node that holds the application's
\* Blockchain. Its body is pass: it fetches nothing, changes nothing and
\* returns None, whatever the peers hold.
ResolveConflicts ==
    /\ ledgers[blockchain].alive
    /\ last' = Outcome("resolve_conflicts", None, "none")
    /\ UNCHANGED <<ledgers, lists, now, submitted, search, requests>>

\* ------------------------------------------------------- specifications

\* The transactions submitted where several ledgers run
SharedTxInputs == {<<"a", "b", [type |-> "int", val |-> "3"]>>}

\* Several ledgers, driven through the public operations of Blockchain
Next ==
    \/ \E l \in LedgerIds, v \in Verifiers, t \in Times(MaxTime) :
          Construct(l, v, t)
    \/ \E l \in LedgerIds, tx \in SharedTxInputs :
          submitted < MaxSubmitted /\ NewTransaction(l, tx)
    \/ \E l \in LedgerIds, proof \in ProofValues, t \in Times(MaxTime) :
          NewBlock(l, proof, t)
    \/ \E l \in LedgerIds : \E chains \in CandidateLists(l) :
          ResolveChainConflict(l, chains)

Spec == Init /\ [][Next]_vars

\* Several ledgers and the chains the tests build by appending to _chain,
\* with the clock standing still
NextWithTests ==
    \/ \E l \in LedgerIds, v \in Verifiers, t \in Times(MaxTimeStill) :
          Construct(l, v, t)
    \/ \E l \in LedgerIds, tx \in SharedTxInputs :
          submitted < MaxSubmitted /\ NewTransaction(l, tx)
    \/ \E l \in LedgerIds, proof \in ProofValues, t \in Times(MaxTimeStill) :
          NewBlock(l, proof, t)
    \/ \E l \in LedgerIds : \E chains \in CandidateLists(l) :
          ResolveChainConflict(l, chains)
    \/ \E l \in LedgerIds : AppendLastBlock(l)

SpecWithTests == Init /\ [][NextWithTests]_vars

\* The same, with callers asking is_valid of the ledgers
NextValidate ==
    \/ \E l \in LedgerIds, v \in Verifiers, t \in Times(MaxTimeStill) :
          Construct(l, v, t)
    \/ \E l \in LedgerIds, tx \in SharedTxInputs :
          submitted < MaxSubmitted /\ NewTransaction(l, tx)
    \/ \E l \in LedgerIds, proof \in ProofValues, t \in Times(MaxTimeStill) :
          NewBlock(l, proof, t)
    \/ \E l \in LedgerIds : \E chains \in CandidateLists(l) :
          ResolveChainConflict(l, chains)
    \/ \E l \in LedgerIds : AppendLastBlock(l)
    \/ \E l \in LedgerIds : IsValid(l)

SpecValidate == Init /\ [][NextValidate]_vars

\* One constructed ledger and the ledgers imported from lists of
\* dictionaries, with the clock standing still
NextImport ==
    \/ \E l \in LedgerIds, tx \in SharedTxInputs :
          submitted < MaxSubmitted /\ NewTransaction(l, tx)
    \/ \E l \in LedgerIds, proof \in ProofValues, t \in Times(MaxTimeStill) :
          NewBlock(l, proof, t)
    \/ \E l \in LedgerIds : \E chains \in CandidateLists(l) :
          ResolveChainConflict(l, chains)
    \/ \E l \in LedgerIds, chain_lst \in ImportInputs, v \in Verifiers,
          t \in Times(MaxTimeStill) : FromListOfDicts(l, chain_lst, v, t)

SpecImport == Init /\ [][NextImport]_vars

\* One ledger alone, with more transactions and clock values
NextAlone ==
    \/ \E tx \in TxInputs :
          submitted < MaxSubmittedAlone /\ NewTransaction(1, tx)
    \/ \E proof \in ProofValues, t \in Times(MaxTimeAlone) :
          NewBlock(1, proof, t)

SpecAlone == Init /\ [][NextAlone]_vars

\* Calls of proof_of_work, one at a time, each run to its return: the loop
\* of a call that has started keeps running
NextSearch ==
    \/ \E input \in SearchInputs : ProofOfWorkCall(input[1], input[2])
    \/ ProofOfWorkStep

SpecSearch == Init /\ [][NextSearch]_vars /\ WF_vars(ProofOfWorkStep)

\* The application serving requests for /mine and /transactions/new, each
\* in a thread of its own, with the clock standing still
NextApp ==
    \/ \E r \in Requests : \E arrival \in Arrivals(r) :
          Arrive(r, arrival[1], arrival[2])
    \/ \E r \in Requests : Solve(r)
    \/ \E r \in Requests : CheckKeys(r)
    \/ \E r \in Requests : LoadList(r)
    \/ \E r \in Requests : AppendTransaction(r)
    \/ \E r \in Requests : ReturnIndex(r)
    \/ \E r \in Requests : CheckProof(r)
    \/ \E r \in Requests, t \in Times(MaxTimeStill) : ReadIndex(r, t)
    \/ \E r \in Requests : ReadTransactions(r)
    \/ \E r \in Requests : ReadPreviousHash(r)
    \/ \E r \in Requests : AppendBlock(r)
    \/ \E r \in Requests : ClearPending(r)
    \/ \E r \in Requests : ReturnBlock(r)

SpecApp == Init /\ [][NextApp]_vars

\* A node and its peers: Blockchain 1 is the node's own, the others are
\* those the peers hold and serve at /chain; the clock stands still
NextNode ==
    \/ \E l \in LedgerIds, v \in Verifiers, t \in Times(MaxTimeStill) :
          Construct(l, v, t)
    \/ \E l \in LedgerIds, tx \in SharedTxInputs :
          submitted < MaxSubmitted /\ NewTransaction(l, tx)
    \/ \E l \in LedgerIds, proof \in ProofValues, t \in Times(MaxTimeStill) :
          NewBlock(l, proof, t)
    \/ ResolveConflicts

SpecNode == Init /\ [][NextNode]_vars

\* ----------------------------------------------------------------- claims

\* Invariants 1-3 of a valid ledger, stated on a chain: block i has index i,
\* every block names the hash of its predecessor, and every adjacent pair
\* of proofs satisfies the verifier.
WellFormed(chain, valid_proof) ==
    /\ \A i \in 1..Len(chain) : chain[i].index = i - 1
    /\ \A i \in 1..(Len(chain) - 1) :
          /\ chain[i + 1].previous_hash = Some(Hash(chain[i]))
          /\ Apply(valid_proof, chain[i].proof, chain[i + 1].proof)

\* C1: in every state reached from a freshly constructed Blockchain through
\* new_transaction, new_block (with any proof) and resolve_chain_conflict
\* over ledgers reached the same way, every ledger is valid: is_valid()
\* holds, indices are dense, hashes link and adjacent proofs verify.
C1_EveryLedgerValid ==
    \A l \in Alive :
        /\ is_valid(l)
        /\ WellFormed(Chain(l), ledgers[l].valid_proof)

\* A ledger that adopted another ledger's chain and then had a block mined
\* on it: two ledgers hold the same list, which is as long as it gets.
C1_Witness ==
    /\ last.op = "new_block" /\ last.exc = "none"
    /\ \E l, x \in Alive :
          /\ l # x
          /\ ledgers[l].chain = ledgers[x].chain
          /\ LenOf(l) = MaxChainLen
          /\ Chain(l)[MaxChainLen] = last.ret[1]

\* C2: a successful new_block(proof) appends exactly one block, whose index
\* is the chain length before the call, whose previous_hash is the hash of
\* the previous last block, whose proof is the supplied proof and whose
\* transactions are the pending transactions in submission order; pending
\* is empty afterwards and the returned block is the new last block.
C2_NewBlockAppendsPending ==
    [][\A proof \in ProofValues, t \in 0..MaxTimeAlone :
          (NewBlock(1, proof, t) /\ last'.exc = "none") =>
             LET before == Chain(1)
                 after == lists'[ledgers'[1].chain]
                 block == after[Len(after)]
             IN  /\ Len(after) = Len(before) + 1
                 /\ SubSeq(after, 1, Len(before)) = before
                 /\ block.index = Len(before)
                 /\ block.previous_hash = Some(Hash(before[Len(before)]))
                 /\ block.proof = proof
                 /\ block.transactions =
                       Some(ledgers[1].unconfirmed_transactions)
                 /\ ledgers'[1].unconfirmed_transactions = <<>>
                 /\ last'.ret = Some(block)]_vars

\* new_block has just mined the two different transactions that were
\* pending, and pending is empty.
C2_Witness ==
    /\ last.op = "new_block" /\ last.exc = "none"
    /\ ledgers[1].unconfirmed_transactions = <<>>
    /\ Chain(1)[Len(Chain(1))] = last.ret[1]
    /\ Len(last.ret[1].transactions[1]) = 2
    /\ last.ret[1].transactions[1][1] # last.ret[1].transactions[1][2]

\* C3: new_block(proof) with a proof the verifier rejects against the last
\* block's proof raises InvalidProofError and leaves the chain and the
\* pending transactions as they were.
C3_InvalidProofChangesNothing ==
    [][\A proof \in ProofValues, t \in 0..MaxTimeAlone :
          ( /\ NewBlock(1, proof, t)
            /\ Chain(1) # <<>>
            /\ ~Apply(ledgers[1].valid_proof,
                      Chain(1)[Len(Chain(1))].proof, proof) ) =>
             /\ last'.exc = "InvalidProofError"
             /\ ledgers' = ledgers
             /\ lists' = lists]_vars

\* new_block has just raised InvalidProofError on a ledger that holds a
\* mined block and a pending transaction.
C3_Witness ==
    /\ last.op = "new_block" /\ last.exc = "InvalidProofError"
    /\ LenOf(1) >= 2
    /\ ledgers[1].unconfirmed_transactions # <<>>

\* A candidate x that may replace the chain of self: the same verifier, a
\* strictly longer chain, and a chain that is valid.
Qualifying(self, x) ==
    /\ ledgers[x].valid_proof = ledgers[self].valid_proof
    /\ Len(Chain(x)) > Len(Chain(self))
    /\ WellFormed(Chain(x), ledgers[x].valid_proof)

\* C4: resolve_chain_conflict(candidates) returns true if and only if some
\* candidate has the verifier of the local ledger, a strictly longer chain
\* and a valid chain; the chain the local ledger holds changes only then.
C4_ResolveTrueIffQualifying ==
    [][last'.op = "resolve_chain_conflict" =>
       \A l \in LedgerIds : \A chains \in CandidateLists(l) :
          ResolveChainConflict(l, chains) =>
             /\ (last'.ret = Some(TRUE)) <=>
                   (\E i \in 1..Len(chains) : Qualifying(l, chains[i]))
             /\ (ledgers'[l].chain # ledgers[l].chain) =>
                   (\E i \in 1..Len(chains) : Qualifying(l, chains[i]))]_vars

\* resolve_chain_conflict has just returned true for a ledger that now
\* holds the list of another one, while a third ledger with the same
\* verifier is longer still but invalid.
C4_Witness ==
    /\ last.op = "resolve_chain_conflict" /\ last.ret = Some(TRUE)
    /\ \E l, w, x \in Alive :
          /\ l # w /\ x # l /\ x # w
          /\ ledgers[l].chain = ledgers[w].chain
          /\ ledgers[x].valid_proof = ledgers[l].valid_proof
          /\ LenOf(x) > LenOf(l)
          /\ ~is_valid(x)

\* C5: when resolve_chain_conflict returns true, the local chain is
\* afterwards, block for block, the chain of a qualifying candidate that is
\* as long as the longest qualifying candidate.
C5_AdoptsLongestQualifying ==
    [][last'.op = "resolve_chain_conflict" =>
       \A l \in LedgerIds : \A chains \in CandidateLists(l) :
          (ResolveChainConflict(l, chains) /\ last'.ret = Some(TRUE)) =>
             \E i \in 1..Len(chains) :
                /\ Qualifying(l, chains[i])
                /\ lists'[ledgers'[l].chain] = Chain(chains[i])
                /\ \A j \in 1..Len(chains) :
                      Qualifying(l, chains[j]) =>
                         Len(Chain(chains[j])) <= Len(Chain(chains[i]))]_vars

\* resolve_chain_conflict has just returned true for a ledger that now
\* holds a list of the greatest length, while a third ledger with the same
\* verifier holds a valid chain of length two.
C5_Witness ==
    /\ last.op = "resolve_chain_conflict" /\ last.ret = Some(TRUE)
    /\ \E l, w, x \in Alive :
          /\ l # w /\ x # l /\ x # w
          /\ ledgers[l].chain = ledgers[w].chain
          /\ LenOf(l) = MaxChainLen
          /\ ledgers[x].valid_proof = ledgers[l].valid_proof
          /\ ledgers[x].chain # ledgers[l].chain
          /\ LenOf(x) = 2
          /\ is_valid(x)

\* C6: when no candidate qualifies resolve_chain_conflict returns false, and
\* when it returns false the chain, the pending transactions and the
\* verifier of the local ledger and of every candidate are as before.
C6_ResolveFalseChangesNothing ==
    [][last'.op = "resolve_chain_conflict" =>
       \A l \in LedgerIds : \A chains \in CandidateLists(l) :
          ResolveChainConflict(l, chains) =>
             /\ (\A i \in 1..Len(chains) : ~Qualifying(l, chains[i])) =>
                   last'.ret = Some(FALSE)
             /\ (last'.ret = Some(FALSE)) =>
                   (ledgers' = ledgers /\ lists' = lists)]_vars

\* resolve_chain_conflict has just returned false while another ledger with
\* the same verifier is longer but invalid, and a transaction is pending.
C6_Witness ==
    /\ last.op = "resolve_chain_conflict" /\ last.ret = Some(FALSE)
    /\ \E l, x \in Alive :
          /\ l # x
          /\ ledgers[x].valid_proof = ledgers[l].valid_proof
          /\ LenOf(x) > LenOf(l)
          /\ ~is_valid(x)
          /\ ledgers[l].unconfirmed_transactions # <<>>

\* C7: resolve_chain_conflict never changes the pending transactions of the
\* local ledger (nor of any other), whether it returns true or false.
C7_ResolveKeepsPending ==
    [][last'.op = "resolve_chain_conflict" =>
       \A l \in LedgerIds : \A chains \in CandidateLists(l) :
          ResolveChainConflict(l, chains) =>
             \A k \in LedgerIds :
                ledgers'[k].unconfirmed_transactions =
                   ledgers[k].unconfirmed_transactions]_vars

\* resolve_chain_conflict has just returned true for a ledger that holds
\* the list of another one whose pending transactions differ from its own.
C7_Witness ==
    /\ last.op = "resolve_chain_conflict" /\ last.ret = Some(TRUE)
    /\ \E l, w \in Alive :
          /\ l # w
          /\ ledgers[l].chain = ledgers[w].chain
          /\ ledgers[w].unconfirmed_transactions # <<>>
          /\ ledgers[l].unconfirmed_transactions = <<>>

\* C8: the chain of every Blockchain object is non-empty in every reachable
\* state, also of the objects from_list_of_dicts returns and of those that
\* adopted a chain through resolve_chain_conflict.
C8_ChainNeverEmpty == \A l \in Alive : Chain(l) # <<>>

\* the genesis block of Blockchain.__init__, whatever its timestamp
IsGenesisBlock(b) ==
    /\ b.index = 0
    /\ b.proof = GenesisProof
    /\ b.previous_hash = None
    /\ b.transactions = None

\* C9: in every reachable ledger (constructed, imported or replaced) that
\* holds a block, the block at position 0 is a genesis block: index 0,
\* proof 100, no previous_hash and no transactions.
C9_FirstBlockIsGenesis ==
    \A l \in Alive : Chain(l) # <<>> => IsGenesisBlock(Chain(l)[1])

\* C10: from_list_of_dicts fails closed. It returns a Blockchain only for a
\* list of dictionaries whose blocks form a valid chain, and the object it
\* returns holds exactly those blocks; for blocks that do not form a valid
\* chain it raises InvalidBlockchainError, for a dictionary that lacks a
\* required key Block.from_dict raises ValueError, and in both cases no
\* Blockchain object comes into being.
C10_ImportFailsClosed ==
    [][last'.op = "from_list_of_dicts" =>
       \A l \in LedgerIds, chain_lst \in ImportInputs, v \in Verifiers,
             t \in 0..MaxTimeStill :
          FromListOfDicts(l, chain_lst, v, t) =>
             LET malformed ==
                    \E i \in 1..Len(chain_lst) :
                       \E key \in {"index", "timestamp", "proof"} :
                          ~HasKey(chain_lst[i], key)
                 blocks == [i \in 1..Len(chain_lst) |-> FromDict(chain_lst[i])]
             IN  /\ (last'.exc = "none") =>
                       /\ ~malformed
                       /\ WellFormed(blocks, v)
                       /\ ledgers'[l].alive
                       /\ ledgers'[l].valid_proof = v
                       /\ lists'[ledgers'[l].chain] = blocks
                       /\ valid_chain(lists'[ledgers'[l].chain], v)
                 /\ (~malformed /\ ~WellFormed(blocks, v)) =>
                       last'.exc = "InvalidBlockchainError"
                 /\ malformed => last'.exc = "ValueError"
                 /\ (last'.exc # "none") =>
                       (ledgers' = ledgers /\ lists' = lists)]_vars

\* from_list_of_dicts has just raised InvalidBlockchainError while a ledger
\* with a mined block exists, whose list of dictionaries was the input.
C10_Witness ==
    /\ last.op = "from_list_of_dicts"
    /\ last.exc = "InvalidBlockchainError"
    /\ \E l \in Alive : LenOf(l) >= 2
    /\ \E l \in LedgerIds : ~ledgers[l].alive

\* C11: round trip. For every ledger s (reached through new_transaction and
\* new_block, and also through an import or a resolve),
\* from_list_of_dicts(s.list_of_dicts(), s.valid_proof) returns a Blockchain
\* that is valid and whose chain has the length of the chain of s and an
\* equal block at every position.
C11_RoundTrip ==
    [][last'.op = "from_list_of_dicts" =>
       \A l \in LedgerIds, s \in Alive, t \in 0..MaxTimeStill :
          FromListOfDicts(l, list_of_dicts(s), ledgers[s].valid_proof, t) =>
             /\ last'.exc = "none"
             /\ last'.ret = Some(l)
             /\ ledgers'[l].alive
             /\ valid_chain(lists'[ledgers'[l].chain], ledgers'[l].valid_proof)
             /\ Len(lists'[ledgers'[l].chain]) = Len(Chain(s))
             /\ \A i \in 1..Len(Chain(s)) :
                   lists'[ledgers'[l].chain][i] = Chain(s)[i]]_vars

\* from_list_of_dicts has just returned a Blockchain whose list is another
\* object than, but equal to, the list of a ledger that holds a mined
\* block with a transaction.
C11_Witness ==
    /\ last.op = "from_list_of_dicts" /\ last.exc = "none"
    /\ \E s \in Alive :
          LET l == last.ret[1]
          IN  /\ s # l
              /\ ledgers[l].chain # ledgers[s].chain
              /\ Chain(l) = Chain(s)
              /\ LenOf(s) >= 2
              /\ \E i \in 1..LenOf(s) :
                    /\ Chain(s)[i].transactions # None
                    /\ Chain(s)[i].transactions[1] # <<>>

\* The chains valid_chain is asked about: the chains the ledgers hold and the
\* chains of blocks read from the lists of dictionaries peers may send.
ChainsToValidate ==
    {Chain(l) : l \in Alive}
    \cup {[i \in 1..Len(lst) |-> FromDict(lst[i])] :
            lst \in {x \in ImportInputs :
                        \A i \in 1..Len(x) : ~FromDictRaises(x[i])}}

\* C12: valid_chain(chain, v) is true exactly when every adjacent pair
\* satisfies next.previous_hash = hash(curr) and v(curr.proof, next.proof)
\* and every block's index is its position. So it is true of a chain of one
\* genesis block, false of a valid chain with a copy of its last block
\* appended, and false of a chain with a block whose index is not its
\* position.
C12_ValidChainExact ==
    \A chain \in ChainsToValidate, v \in Verifiers :
        /\ valid_chain(chain, v) <=> WellFormed(chain, v)
        /\ (Len(chain) = 1 /\ IsGenesisBlock(chain[1])) => valid_chain(chain, v)
        /\ (chain # <<>> /\ valid_chain(chain, v)) =>
              ~valid_chain(Append(chain, chain[Len(chain)]), v)
        /\ (\E i \in 1..Len(chain) : chain[i].index # i - 1) =>
              ~valid_chain(chain, v)

\* The tests have just appended a copy of the last block to the valid chain
\* of two blocks a ledger held, and the ledger is not valid any more.
C12_Witness ==
    /\ last.op = "append_last_block"
    /\ \E l \in Alive :
          /\ LenOf(l) = 3
          /\ Chain(l)[3] = Chain(l)[2]
          /\ valid_chain(SubSeq(Chain(l), 1, 2), ledgers[l].valid_proof)
          /\ ~is_valid(l)

\* C13: is_valid has no side effect and can be run again. A call leaves
\* every chain, every pending buffer and every verifier as they were, and a
\* call made on the ledger right after it returns the same result.
C13_IsValidChangesNothing ==
    [][last'.op = "is_valid" =>
       \A l \in LedgerIds :
          IsValid(l) =>
             /\ ledgers' = ledgers
             /\ lists' = lists
             /\ last'.ret = Some(valid_chain(lists'[ledgers'[l].chain],
                                             ledgers'[l].valid_proof))]_vars

\* is_valid has just returned false for a ledger that holds a corrupted
\* chain of three blocks and a pending transaction.
C13_Witness ==
    /\ last.op = "is_valid" /\ last.ret = Some(FALSE)
    /\ \E l \in Alive :
          /\ ~is_valid(l)
          /\ LenOf(l) = 3
          /\ ledgers[l].unconfirmed_transactions # <<>>

\* C14: new_transaction(sender, recipient, amount) appends exactly one
\* transaction with those fields to the end of the pending transactions,
\* leaves the chain as it was, and returns the length of the chain, which is
\* the index the next mined block receives.
C14_NewTransactionAppendsOne ==
    [][last'.op = "new_transaction" =>
       \A tx \in TxInputs :
          NewTransaction(1, tx) =>
             /\ ledgers'[1].unconfirmed_transactions =
                   ledgers[1].unconfirmed_transactions
                      \o <<[sender |-> tx[1], recipient |-> tx[2],
                            amount |-> tx[3]]>>
             /\ ledgers'[1].chain = ledgers[1].chain
             /\ ledgers'[1].valid_proof = ledgers[1].valid_proof
             /\ lists' = lists
             /\ last'.exc = "none"
             /\ last'.ret = Some(Len(Chain(1)))]_vars

\* new_transaction has just returned 2 on a ledger with one mined block,
\* and the transaction it took is the second of two different pending ones.
C14_Witness ==
    /\ last.op = "new_transaction" /\ last.ret = Some(2)
    /\ LenOf(1) = 2
    /\ Len(ledgers[1].unconfirmed_transactions) = 2
    /\ ledgers[1].unconfirmed_transactions[1]
          # ledgers[1].unconfirmed_transactions[2]

\* the transactions a ledger holds: the pending ones and the mined ones
TransactionsOf(l) ==
    {ledgers[l].unconfirmed_transactions[i] :
        i \in 1..Len(ledgers[l].unconfirmed_transactions)}
    \cup UNION {IF Chain(l)[i].transactions = None THEN {}
                ELSE {Chain(l)[i].transactions[1][j] :
                         j \in 1..Len(Chain(l)[i].transactions[1])} :
                i \in 1..Len(Chain(l))}

\* C15: the amount of a transaction is stored as a number: an amount given
\* as a string is converted when the Transaction is constructed (or the
\* construction fails), so no pending and no mined transaction carries an
\* amount that is a string.
C15_AmountsAreNumbers ==
    \A l \in Alive : \A tx \in TransactionsOf(l) : tx.amount.type # "str"

\* C16: for every last_proof and verifier with a solution,
\* proof_of_work(last_proof, verifier) returns a proof p that the verifier
\* accepts against last_proof, while it rejects every p' with 0 <= p' < p.
C16_FirstFitProof ==
    search.pc = "done" =>
        /\ last = Outcome("proof_of_work", Some(search.proof), "none")
        /\ Apply(search.valid_proof, search.last_proof, search.proof)
        /\ \A smaller \in 0..(search.proof - 1) :
              ~Apply(search.valid_proof, search.last_proof, smaller)

\* proof_of_work(100) has just returned 35293 under the default puzzle.
C16_Witness ==
    /\ search.pc = "done"
    /\ search.valid_proof = "valid_four_zeros_proof"
    /\ search.last_proof = GenesisProof
    /\ search.proof = 35293
    /\ last.op = "proof_of_work"

\* the inputs of proof_of_work for which some proof from 0 up is accepted
SolvableInputs ==
    {input \in SearchInputs :
        \E p \in 0..MaxProof : Apply(input[2], input[1], p)}

\* C17: proof_of_work(last_proof, verifier) returns if and only if some
\* proof p >= 0 satisfies verifier(last_proof, p): a call for which a
\* solution exists returns, and a call that returns had a solution, so
\* under a verifier without solution the search goes on and never returns.
C17_ReturnsIffSolvable ==
    /\ (search.pc = "loop"
        /\ <<search.last_proof, search.valid_proof>> \in SolvableInputs)
          ~> (search.pc = "done")
    /\ [](search.pc = "done" =>
             <<search.last_proof, search.valid_proof>> \in SolvableInputs)

\* the search under the puzzle without solution is still running after
\* every candidate up to the greatest one has been rejected
C17_Witness ==
    /\ search.pc = "loop"
    /\ search.valid_proof = "valid_no_proof"
    /\ search.proof = MaxProof

\* where a transaction is held by the application's Blockchain: its
\* positions <<0, j>> in the pending list and <<i, j>> in the i-th block
Places(tx) ==
    {<<0, j>> :
        j \in {k \in 1..Len(ledgers[blockchain].unconfirmed_transactions) :
                  ledgers[blockchain].unconfirmed_transactions[k] = tx}}
    \cup UNION {IF Chain(blockchain)[i].transactions = None THEN {}
                ELSE {<<i, j>> :
                        j \in {k \in 1..Len(Chain(blockchain)[i].transactions[1]) :
                                  Chain(blockchain)[i].transactions[1][k] = tx}} :
                i \in 1..LenOf(blockchain)}

\* C18: mining is atomic with respect to the pending transactions. However
\* the new_transaction calls of /transactions/new requests interleave with
\* the new_block call of a /mine request on the same Blockchain, every
\* accepted transaction (its request answered 201) is, once every request
\* has been served, in exactly one mined block or still pending: none is
\* lost and none is in two places.
C18_AcceptedTransactionsKeptOnce ==
    (\A r \in Requests : requests[r].pc \in {"idle", "done"}) =>
        \A r \in Requests :
            (requests[r].handler = "new_transaction"
             /\ requests[r].code = 201) =>
                Cardinality(Places(TxFromDict(requests[r].form))) = 1

\* C19: a /mine request, which solves its own proof (proof_of_work on the
\* proof of the last block, then the reward, then new_block), never fails
\* with InvalidProofError, in whatever order /mine and /transactions/new
\* requests on the same Blockchain are served and interleaved.
C19_MineNeverRejectsOwnProof ==
    \A r \in Requests :
        requests[r].handler = "mine" => requests[r].exc # "InvalidProofError"

\* a peer whose chain the node can fetch and import and which is valid and
\* strictly longer than the node's own chain
PeerQualifies(x) ==
    LET raw_chain == list_of_dicts(x)
        imported == [i \in 1..Len(raw_chain) |-> FromDict(raw_chain[i])]
    IN  /\ x # blockchain
        /\ \A i \in 1..Len(raw_chain) : ~FromDictRaises(raw_chain[i])
        /\ valid_chain(imported, ledgers[blockchain].valid_proof)
        /\ Len(imported) > LenOf(blockchain)

\* C20: resolving against the peers (BlockchainNode.resolve_conflicts, which
\* /nodes/resolve calls) returns true and replaces the local chain by a
\* longer one whenever the chain of at least one peer can be fetched and
\* imported and is valid and strictly longer than the local chain.
C20_ResolveConflictsAdoptsPeer ==
    [][(ResolveConflicts /\ \E x \in Alive : PeerQualifies(x)) =>
          /\ last'.ret = Some(TRUE)
          /\ Len(lists'[ledgers'[blockchain].chain]) > LenOf(blockchain)]_vars

\* C21: resolve_chain_conflict is deterministic for a fixed local ledger and
\* a fixed order of the candidates: the list the local ledger holds after
\* the call is determined by the state and the candidates, and when several
\* qualifying candidates share the greatest length it is the list of the
\* one that comes first among them.
C21_ResolveAdoptsEarliestLongest ==
    [][last'.op = "resolve_chain_conflict" =>
       \A l \in LedgerIds : \A chains \in CandidateLists(l) :
          ResolveChainConflict(l, chains) =>
             LET qualifying == {i \in 1..Len(chains) : Qualifying(l, chains[i])}
                 longest == {i \in qualifying :
                               \A j \in qualifying :
                                  Len(Chain(chains[j])) <= Len(Chain(chains[i]))}
             IN  IF qualifying = {}
                 THEN ledgers'[l].chain = ledgers[l].chain
                 ELSE \E i \in longest :
                         /\ \A j \in longest : i <= j
                         /\ ledgers'[l].chain = ledgers[chains[i]].chain]_vars

\* resolve_chain_conflict has just returned true for a ledger that now
\* holds the list of one ledger, while another ledger of the same verifier
\* holds another list, valid and of the same length.
C21_Witness ==
    /\ last.op = "resolve_chain_conflict" /\ last.ret = Some(TRUE)
    /\ \E l, w, x \in Alive :
          /\ l # w /\ x # l /\ x # w
          /\ ledgers[l].chain = ledgers[w].chain
          /\ ledgers[x].chain # ledgers[w].chain
          /\ ledgers[x].valid_proof = ledgers[l].valid_proof
          /\ LenOf(x) = LenOf(w)
          /\ is_valid(x)

\* chain a is a prefix of chain b
IsPrefix(a, b) == Len(a) <= Len(b) /\ SubSeq(b, 1, Len(a)) = a

\* C22: under new_transaction and new_block (and a resolve_chain_conflict
\* returning false) the chain is append-only: the chain every ledger holds
\* before the operation is a prefix of the chain it holds after it, so a
\* mined block is never altered, reordered or removed. Only a
\* resolve_chain_conflict returning true can take blocks away.
C22_ChainAppendOnly ==
    [][(last'.op = "resolve_chain_conflict" => last'.ret = Some(FALSE)) =>
          \A k \in Alive :
             IsPrefix(Chain(k), lists'[ledgers'[k].chain])]_vars

\* new_block has just appended a third block to a chain whose second block
\* holds a transaction.
C22_Witness ==
    /\ last.op = "new_block" /\ last.exc = "none"
    /\ \E l \in Alive :
          /\ LenOf(l) = 3
          /\ Chain(l)[3] = last.ret[1]
          /\ Chain(l)[2].transactions[1] # <<>>

\* C23: two Blockchain objects compare equal exactly when they have the same
\* verifier and the same sequence of blocks, that is the same length and
\* equal blocks at every position; so a ledger is never equal to one whose
\* chain is a strict prefix or a strict extension of its own.
C23_EqualIffSameBlocks ==
    \A a, b \in Alive :
        Eq(a, b) <=>
           /\ ledgers[a].valid_proof = ledgers[b].valid_proof
           /\ Len(Chain(a)) = Len(Chain(b))
           /\ \A i \in 1..Len(Chain(a)) : Chain(a)[i] = Chain(b)[i]

\* the transactions txs in reverse order
Reversed(txs) == [i \in 1..Len(txs) |-> txs[Len(txs) + 1 - i]]

\* a block and the blocks that differ from it in one field: another index,
\* timestamp or proof, another or no previous_hash, no transactions, an
\* empty batch, the batch in reverse order, the batch without its last
\* transaction, and the batch with the first amount as a string
Variants(b) ==
    {b,
     [b EXCEPT !.index = @ + 1],
     [b EXCEPT !.timestamp = @ + 1],
     [b EXCEPT !.proof = @ + 1],
     [b EXCEPT !.previous_hash = None],
     [b EXCEPT !.previous_hash = Some(Hash(b))],
     [b EXCEPT !.transactions = None],
     [b EXCEPT !.transactions = Some(<<>>)]}
    \cup (IF b.transactions = None \/ b.transactions = Some(<<>>) THEN {}
          ELSE {[b EXCEPT !.transactions = Some(Reversed(@[1]))],
                [b EXCEPT !.transactions =
                             Some(SubSeq(@[1], 1, Len(@[1]) - 1))],
                [b EXCEPT !.transactions[1][1].amount.type = "str"]})

\* the blocks of the ledger's chain and their variants
BlocksToHash ==
    UNION {Variants(Chain(1)[i]) : i \in 1..LenOf(1)}

\* C24: Block.hash is a function of the block's fields, serialized in the
\* order index, timestamp, proof, previous_hash, transactions: blocks with
\* the same field values have the same hash, and two blocks that differ in
\* a field or in the order of their transactions have different
\* serializations fed to the digest (and so different hashes).
C24_HashOfFields ==
    \A b1, b2 \in BlocksToHash :
        /\ b1 = b2 => Hash(b1) = Hash(b2)
        /\ b1 # b2 =>
              /\ JsonDumps(BlockDict(b1)) # JsonDumps(BlockDict(b2))
              /\ Hash(b1) # Hash(b2)
        /\ LET keys == [i \in 1..Len(BlockDict(b1)) |-> BlockDict(b1)[i][1]]
           IN  keys = <<"index", "timestamp", "proof", "previous_hash",
                        "transactions">>

\* the ledger holds a mined block with two different transactions, so that
\* the block with its batch reversed is another block
C24_Witness ==
    \E i \in 1..LenOf(1) :
        /\ Chain(1)[i].transactions # None
        /\ Len(Chain(1)[i].transactions[1]) = 2
        /\ Reversed(Chain(1)[i].transactions[1]) # Chain(1)[i].transactions[1]
        /\ Chain(1)[i].previous_hash # None

\* C25: replicas stay independent after conflict resolution. A new_block on
\* one ledger changes the chain of no other ledger: after
\* local.resolve_chain_conflict(candidates) has returned true, mining on the
\* local ledger leaves the chain of the winning candidate as it was, and
\* mining on the winning candidate leaves the local chain as it was.
C25_NewBlockChangesOwnChainOnly ==
    [][last'.op = "new_block" =>
       \A l \in LedgerIds, proof \in ProofValues, t \in 0..MaxTime :
          NewBlock(l, proof, t) =>
             \A k \in Alive \ {l} :
                lists'[ledgers'[k].chain] = Chain(k)]_vars

\* the transactions a chain and a pending list hold, in order: the batches
\* of the blocks one after the other, followed by the pending transactions
Held(chain, pending) ==
    LET batches[i \in 0..Len(chain)] ==
            IF i = 0 THEN <<>>
            ELSE batches[i - 1]
                 \o (IF chain[i].transactions = None THEN <<>>
                     ELSE chain[i].transactions[1])
    IN  batches[Len(chain)] \o pending

\* C26: transaction conservation on one ledger used sequentially, without
\* resolve. The batches of the blocks followed by the pending transactions
\* are the accepted transactions in submission order, each once: empty at
\* construction, extended at the end by exactly the submitted transaction
\* on every new_transaction, and left as they are by every new_block,
\* successful or failing.
C26_TransactionsConserved ==
    [][LET before == Held(Chain(1), ledgers[1].unconfirmed_transactions)
           after == Held(lists'[ledgers'[1].chain],
                         ledgers'[1].unconfirmed_transactions)
       IN  /\ Len(before) = submitted
           /\ Len(after) = submitted'
           /\ \A tx \in TxInputs :
                 NewTransaction(1, tx) =>
                    after = Append(before, Transaction(tx[1], tx[2], tx[3]))
           /\ last'.op = "new_block" => after = before]_vars

\* a new_block has just failed on a ledger that holds two transactions in a
\* mined block and a third, pending one
C26_Witness ==
    /\ last.op = "new_block" /\ last.exc = "InvalidProofError"
    /\ submitted = 3
    /\ Len(ledgers[1].unconfirmed_transactions) = 1
    /\ \E i \in 1..LenOf(1) :
          /\ Chain(1)[i].transactions # None
          /\ Len(Chain(1)[i].transactions[1]) = 2

\* C27: without a resolve in between, a transaction is contained in the
\* block whose index new_transaction returned, and the transactions
\* submitted between two successful new_block calls are in the same block.
\* new_transaction returns the length of the chain and puts the transaction
\* at the end of the pending list; as long as the chain keeps its length
\* no transaction leaves the pending list; and the step that changes the
\* length appends one block whose index is the length before, which is the
\* value every pending transaction was given, and whose batch is the whole
\* pending list.
C27_MinedInPromisedBlock ==
    [][LET chain == Chain(1)
           pending == ledgers[1].unconfirmed_transactions
           chain_after == lists'[ledgers'[1].chain]
           pending_after == ledgers'[1].unconfirmed_transactions
       IN  /\ \A tx \in TxInputs :
                 NewTransaction(1, tx) =>
                    /\ last'.ret = Some(Len(chain))
                    /\ chain_after = chain
                    /\ pending_after =
                          Append(pending, Transaction(tx[1], tx[2], tx[3]))
           /\ Len(chain_after) = Len(chain) =>
                 /\ chain_after = chain
                 /\ IsPrefix(pending, pending_after)
           /\ Len(chain_after) # Len(chain) =>
                 /\ chain_after = Append(chain, chain_after[Len(chain_after)])
                 /\ chain_after[Len(chain_after)].index = Len(chain)
                 /\ chain_after[Len(chain_after)].transactions = Some(pending)
                 /\ pending_after = <<>>]_vars

\* new_block has just mined, as block 2, the two transactions that were
\* submitted after block 1 was mined
C27_Witness ==
    /\ last.op = "new_block" /\ last.exc = "none"
    /\ LenOf(1) = 3
    /\ last.ret[1] = Chain(1)[3]
    /\ last.ret[1].index = 2
    /\ Len(last.ret[1].transactions[1]) = 2

\* C28: under sequential new_transaction, new_block and
\* resolve_chain_conflict calls the length of a ledger's chain never
\* decreases: no step shortens the chain of any ledger; new_transaction, a
\* rejected new_block and a resolve returning False keep the length of the
\* chain of every ledger; an accepted new_block adds exactly one block, the
\* one it returns, to the list of the ledger it was called on; a resolve
\* returning True makes the ledger it was called on, which is the only one
\* whose fields it assigns, strictly longer.
C28_LengthNeverDecreases ==
    [][LET LenAfter(l) == Len(lists'[ledgers'[l].chain])
           Unchanged == \A l \in Alive : LenAfter(l) = LenOf(l)
       IN  /\ \A l \in Alive : LenAfter(l) >= LenOf(l)
           /\ last'.op = "new_transaction" => Unchanged
           /\ last'.op = "new_block" =>
                 IF last'.exc = "none"
                 THEN \E l \in Alive :
                         /\ LenAfter(l) = LenOf(l) + 1
                         /\ lists'[ledgers'[l].chain][LenAfter(l)] = last'.ret[1]
                         /\ \A m \in Alive :
                               LenAfter(m) =
                                  IF ledgers[m].chain = ledgers[l].chain
                                  THEN LenOf(m) + 1 ELSE LenOf(m)
                 ELSE Unchanged
           /\ last'.op = "resolve_chain_conflict" =>
                 IF last'.ret = Some(TRUE)
                 THEN \E l \in Alive :
                         /\ ledgers'[l] # ledgers[l]
                         /\ \A m \in LedgerIds \ {l} : ledgers'[m] = ledgers[m]
                         /\ LenAfter(l) > LenOf(l)
                 ELSE Unchanged]_vars

\* a resolve has returned True and another one, on a ledger that already
\* holds a chain of three blocks, has then returned False
C28_Witness ==
    /\ last.op = "resolve_chain_conflict" /\ last.ret = Some(FALSE)
    /\ \E l, w \in Alive :
          /\ l # w
          /\ ledgers[l].chain = ledgers[w].chain
          /\ LenOf(l) = 3

\* C29: the new_block calls of concurrent /mine requests on the same
\* Blockchain, which take no lock, leave a valid chain however they
\* interleave: once every request has been served, is_valid() holds, that
\* is the indices are dense, every block carries the hash of the block it
\* follows and its proof verifies against the proof of that block.
C29_ConcurrentMinesKeepChainValid ==
    (\A r \in Requests : requests[r].pc \in {"idle", "done"}) =>
        is_valid(blockchain)

\* the reward of the mine handler: sender '0', recipient the node id,
\* amount 1
IsReward(tx) == tx = Transaction("0", node_id, [type |-> "int", val |-> "1"])

\* C30: every block appended through the /mine handler holds exactly one
\* reward transaction, whatever the order and interleaving of /mine and
\* /transactions/new requests, failing /mine requests included: every block
\* after the genesis block has a batch of transactions of which exactly one
\* is the reward.
C30_OneRewardPerBlock ==
    \A i \in 2..LenOf(blockchain) :
        LET b == Chain(blockchain)[i]
        IN  /\ b.transactions # None
            /\ Cardinality({j \in 1..Len(b.transactions[1]) :
                               IsReward(b.transactions[1][j])}) = 1

\* C31: resolve_chain_conflict is idempotent for an unchanged list of
\* candidates. A call that returns False leaves every ledger and every list
\* as they were, so that a second call starts from the state the first one
\* started from. In the state a call that returns True leaves, no candidate
\* of the same list passes the condition of the comprehension any more,
\* which is the case in which resolve_chain_conflict assigns nothing and
\* returns False. Either way a second call with the same candidates and
\* nothing in between returns False and the local ledger keeps the list the
\* first call left it.
C31_ResolveIdempotent ==
    [][last'.op = "resolve_chain_conflict" =>
       IF last'.ret = Some(FALSE)
       THEN ledgers' = ledgers /\ lists' = lists
       ELSE \A l \in LedgerIds :
               ledgers'[l] # ledgers[l] =>
                  \A chains \in CandidateLists(l) :
                     ResolveChainConflict(l, chains) =>
                        (ValidLongerChains(l, chains) = <<>>)']_vars

\* resolve_chain_conflict has just returned True with two candidates of
\* different lengths of the local ledger's verifier, and the local ledger
\* holds the list of the longer one
C31_Witness ==
    /\ last.op = "resolve_chain_conflict" /\ last.ret = Some(TRUE)
    /\ \E l, w, x \in Alive :
          /\ l # w /\ x # l /\ x # w
          /\ ledgers[l].chain = ledgers[w].chain
          /\ ledgers[x].valid_proof = ledgers[l].valid_proof
          /\ is_valid(x)
          /\ LenOf(x) = 2
          /\ LenOf(w) = 3

\* the blocks that differ from block b in their transactions only: no
\* batch, an empty batch, one more transaction, the batch without its last
\* transaction, and the batch with the first amount as a string
TamperedTransactions(b) ==
    ({[b EXCEPT !.transactions = None],
      [b EXCEPT !.transactions = Some(<<>>)],
      [b EXCEPT !.transactions =
                   Some((IF @ = None THEN <<>> ELSE @[1])
                        \o <<Transaction("m", "m", [type |-> "int",
                                                    val |-> "1000"])>>)]}
     \cup (IF b.transactions = None \/ b.transactions = Some(<<>>) THEN {}
           ELSE {[b EXCEPT !.transactions =
                              Some(SubSeq(@[1], 1, Len(@[1]) - 1))],
                 [b EXCEPT !.transactions[1][1].amount.type = "str"]}))
    \ {b}

\* C32 as stated: in a valid chain of at least two blocks, replacing the
\* block at any position i >= 1, the last one included, by a block that
\* differs from it in its transactions only makes valid_chain return False.
C32_TamperDetectedEverywhere ==
    \A chain \in ChainsToValidate, v \in Verifiers :
        (Len(chain) >= 2 /\ valid_chain(chain, v)) =>
           \A i \in 2..Len(chain) :
              \A b \in TamperedTransactions(chain[i]) :
                 ~valid_chain([chain EXCEPT ![i] = b], v)

\* C32, amended: in a valid chain of at least two blocks, replacing the
\* block at a position i >= 1 by a block that differs from it in its
\* transactions only makes valid_chain return False exactly when the block
\* is not the last one. The hash of a block is checked against the
\* previous_hash of the block that follows it, and nothing follows the last
\* block: with its transactions replaced the chain is still valid.
C32_TamperDetectedBeforeLast ==
    \A chain \in ChainsToValidate, v \in Verifiers :
        (Len(chain) >= 2 /\ valid_chain(chain, v)) =>
           \A i \in 2..Len(chain) :
              \A b \in TamperedTransactions(chain[i]) :
                 valid_chain([chain EXCEPT ![i] = b], v) <=> i = Len(chain)

\* a ledger holds a valid chain of three blocks whose second block has a
\* transaction; without that transaction in the second block the chain is
\* not valid, and with one more transaction in the third block it is
C32_Witness ==
    \E l \in Alive :
        /\ LenOf(l) = 3
        /\ is_valid(l)
        /\ Chain(l)[2].transactions \notin {None, Some(<<>>)}
        /\ ~valid_chain([Chain(l) EXCEPT ![2].transactions = Some(<<>>)],
                        ledgers[l].valid_proof)
        /\ valid_chain([Chain(l) EXCEPT ![3].transactions =
                           Some(<<Transaction("m", "m", [type |-> "int",
                                                         val |-> "1000"])>>)],
                       ledgers[l].valid_proof)

====
